---- MODULE Spec2Model ----
(***************************************************************************)
(* Model of tracklist_chapter_fetch: the time normalizer                   *)
(* (utils.format_time_ms) and the chapter synthesizer / serializer         *)
(* (metadata.generate_ffmetadata and its helpers).                         *)
(*                                                                         *)
(* Representation of Python values:                                        *)
(*   - a timestamp text is a sequence of one-character strings, because    *)
(*     format_time_ms inspects it character by character;                  *)
(*   - every other string (title, artist, a line of metadata) is the       *)
(*     sequence of its lines, i.e. the string split at "\n"; the empty     *)
(*     string is <<"">>.  The output is line oriented, so this keeps a     *)
(*     line break inside a title visible in the joined text;               *)
(*   - a dictionary entry carries a kind: "absent" (no such key), "None",  *)
(*     "str", and for timestamps also "int" and "list".                    *)
(***************************************************************************)
EXTENDS Integers, Sequences, FiniteSets, TLC

VARIABLES
    pc,          \* position: "idle", "loop", "done", "time_done"
    tracks,      \* argument of generate_ffmetadata
    i,           \* loop index of generate_ffmetadata (0-based, as enumerate)
    metadata,    \* the list `metadata` built by generate_ffmetadata
    chapters,    \* what __process_track__ computed for each emitted chapter
    result,      \* outcome of generate_ffmetadata
    time_fields, \* the colon-separated fields the argument was written with
    time_str,    \* argument of format_time_ms
    time_ms,     \* outcome of format_time_ms
    html,        \* the parsed document given to parse_tracklist
    parsed,      \* outcome of parse_tracklist
    located,     \* the container and the track items parse_tracklist found
    url,         \* argument of validate_url / the URL of a run of main
    url_result,  \* outcome of validate_url
    stage,       \* position of main
    events,      \* what a run of main has done so far, in order
    exit_code    \* the value main returned

\* the state of the scraper, of validate_url and of main
cli_vars == <<html, parsed, located, url, url_result, stage, events, exit_code>>

vars == <<pc, tracks, i, metadata, chapters, result, time_fields, time_str, time_ms,
          html, parsed, located, url, url_result, stage, events, exit_code>>

(***************************************************************************)
(* Bounds of the model.                                                    *)
(***************************************************************************)
MaxTracks == 3
MaxFields == 4

(***************************************************************************)
(* Outcomes of a call: a returned value or a raised exception.             *)
(***************************************************************************)
ReturnInt(n) == [kind |-> "int", val |-> n]
ReturnNone == [kind |-> "None", val |-> 0]
Raise(exc) == [kind |-> exc, val |-> 0]

(***************************************************************************)
(* utils.py: format_time_ms                                                *)
(***************************************************************************)
Digits == {"0", "1", "2", "3", "4", "5", "6", "7", "8", "9"}

DigitVal(c) ==
    CASE c = "0" -> 0 [] c = "1" -> 1 [] c = "2" -> 2 [] c = "3" -> 3
      [] c = "4" -> 4 [] c = "5" -> 5 [] c = "6" -> 6 [] c = "7" -> 7
      [] c = "8" -> 8 [] c = "9" -> 9

RECURSIVE DecimalValue(_)
DecimalValue(ds) ==
    IF Len(ds) = 0 THEN 0
    ELSE DecimalValue(SubSeq(ds, 1, Len(ds) - 1)) * 10 + DigitVal(ds[Len(ds)])

\* int(text): an optional sign followed by one or more decimal digits; anything
\* else is a ValueError.  (Surrounding blanks and "_" separators, which int()
\* also accepts, are outside the modelled alphabet.)
py_int(text) ==
    LET signed == Len(text) > 0 /\ text[1] \in {"-", "+"}
        body == IF signed THEN Tail(text) ELSE text
    IN  IF Len(body) > 0 /\ \A k \in 1..Len(body) : body[k] \in Digits
        THEN ReturnInt((IF signed /\ text[1] = "-" THEN -1 ELSE 1) * DecimalValue(body))
        ELSE Raise("ValueError")

\* text.split(":")
RECURSIVE SplitFrom(_, _, _)
SplitFrom(text, k, cur) ==
    IF k > Len(text) THEN <<cur>>
    ELSE IF text[k] = ":" THEN <<cur>> \o SplitFrom(text, k + 1, <<>>)
    ELSE SplitFrom(text, k + 1, Append(cur, text[k]))

split_colon(text) == SplitFrom(text, 1, <<>>)

\* ":".join(fields)
RECURSIVE join_colon(_)
join_colon(fields) ==
    IF Len(fields) = 0 THEN <<>>
    ELSE IF Len(fields) = 1 THEN fields[1]
    ELSE fields[1] \o <<":">> \o join_colon(Tail(fields))

\* `":" in time_str` for a str
has_colon(text) == \E k \in 1..Len(text) : text[k] = ":"

\* format_time_ms with the hours of HH:MM:SS weighted as minutes
format_time_text_hours_as_minutes(text) ==
    IF has_colon(text)
    THEN LET parts == split_colon(text)
             n(k) == py_int(parts[k])
         IN  IF Len(parts) = 2
             THEN IF n(1).kind = "int" /\ n(2).kind = "int"
                  THEN ReturnInt((n(1).val * 60 + n(2).val) * 1000)
                  ELSE ReturnNone
             ELSE IF Len(parts) = 3
             THEN IF n(1).kind = "int" /\ n(2).kind = "int" /\ n(3).kind = "int"
                  THEN ReturnInt((n(1).val * 60 + n(2).val * 60 + n(3).val) * 1000)
                  ELSE ReturnNone
             ELSE ReturnNone
    ELSE LET n == py_int(text)
         IN  IF n.kind = "int" THEN ReturnInt(n.val * 1000) ELSE ReturnNone

\* The body of format_time_ms for a str argument; ValueError is caught.
format_time_text(text) ==
    IF has_colon(text)
    THEN LET parts == split_colon(text)
             n(k) == py_int(parts[k])
         IN  IF Len(parts) = 2
             THEN IF n(1).kind = "int" /\ n(2).kind = "int"
                  THEN ReturnInt((n(1).val * 60 + n(2).val) * 1000)
                  ELSE ReturnNone
             ELSE IF Len(parts) = 3
             THEN IF n(1).kind = "int" /\ n(2).kind = "int" /\ n(3).kind = "int"
                  THEN ReturnInt((n(1).val * 3600 + n(2).val * 60 + n(3).val) * 1000)
                  ELSE ReturnNone
             ELSE ReturnNone
    ELSE LET n == py_int(text)
         IN  IF n.kind = "int" THEN ReturnInt(n.val * 1000) ELSE ReturnNone

\* format_time_ms(time_str) for any Python value:
\*   str   - as above;
\*   None, int - `":" in time_str` raises TypeError, which is caught;
\*   list  - [":"]: `":" in time_str` is true and .split raises AttributeError,
\*           which is not caught.
format_time_ms(v) ==
    CASE v.kind = "str" -> format_time_text(v.chars)
      [] v.kind \in {"None", "int"} -> ReturnNone
      [] v.kind = "list" -> Raise("AttributeError")

(***************************************************************************)
(* Inputs of format_time_ms: every text of at most MaxFields fields        *)
(* joined by ":".                                                          *)
(***************************************************************************)
FieldTexts ==
    { <<>>, <<"0">>, <<"5">>, <<"3", "4">>, <<"0", "1">>, <<"-", "5">>,
      <<"+", "5">>, <<"-">>, <<"x">>, <<"3", "x">> }

FieldLists == UNION { [1..n -> FieldTexts] : n \in 1..MaxFields }

Init ==
    /\ pc = "idle"
    /\ tracks = <<>>
    /\ i = 0
    /\ metadata = <<>>
    /\ chapters = <<>>
    /\ result = [kind |-> "none", text |-> <<>>]
    /\ time_fields = <<>>
    /\ time_str = <<>>
    /\ time_ms = ReturnNone
    /\ html = <<>>
    /\ parsed = [kind |-> "none", msg |-> "", tracks |-> <<>>]
    /\ located = [container |-> 0, wrapped |-> FALSE, records |-> <<>>]
    /\ url = <<>>
    /\ url_result = [kind |-> "none", msg |-> ""]
    /\ stage = "start"
    /\ events = <<>>
    /\ exit_code = -1

FormatTimeCall ==
    /\ pc = "idle"
    /\ \E fields \in FieldLists :
        /\ time_fields' = fields
        /\ time_str' = join_colon(fields)
        /\ time_ms' = format_time_ms([kind |-> "str", chars |-> join_colon(fields)])
    /\ pc' = "time_done"
    /\ UNCHANGED <<tracks, i, metadata, chapters, result>>
    /\ UNCHANGED cli_vars

NextTime == FormatTimeCall

SpecTime == Init /\ [][NextTime]_vars

(***************************************************************************)
(* Python strings as sequences of lines.                                   *)
(***************************************************************************)
PyStr(lines) == [kind |-> "str", lines |-> lines]
PyNone == [kind |-> "None", lines |-> <<"None">>]
Absent == [kind |-> "absent", lines |-> <<>>]

\* a + b for two strings
str_cat(a, b) ==
    SubSeq(a, 1, Len(a) - 1) \o <<a[Len(a)] \o b[1]>> \o Tail(b)

\* "\n".join(strings), seen as the lines of the joined text
RECURSIVE join_newline(_)
join_newline(strings) ==
    IF Len(strings) = 0 THEN <<"">>
    ELSE IF Len(strings) = 1 THEN strings[1]
    ELSE strings[1] \o join_newline(Tail(strings))

\* str(v), as an f-string formats a value
py_format(v) == IF v.kind = "str" THEN v.lines ELSE <<"None">>

\* bool(v) for a title or artist value
truthy(v) == v.kind = "str" /\ v.lines # <<"">>

\* bool(v) for a timestamp value: None and "" are false, the modelled int (34)
\* and list ([":"]) are true
truthy_timestamp(v) ==
    CASE v.kind \in {"absent", "None"} -> FALSE
      [] v.kind = "str" -> v.chars # <<>>
      [] OTHER -> TRUE

\* track.get(key): None for a missing key
dict_get(entry) == IF entry.kind = "absent" THEN PyNone ELSE entry
timestamp_get(entry) ==
    IF entry.kind = "absent" THEN [kind |-> "None", chars |-> <<>>] ELSE entry

\* track.get(key, default)
dict_get_default(entry, default) == IF entry.kind = "absent" THEN default ELSE entry

(***************************************************************************)
(* metadata.py                                                             *)
(***************************************************************************)
TimingTuple(start_ms, end_ms) == [kind |-> "tuple", start_ms |-> start_ms, end_ms |-> end_ms]
TimingNone == [kind |-> "None", start_ms |-> 0, end_ms |-> 0]
TimingRaise(exc) == [kind |-> exc, start_ms |-> 0, end_ms |-> 0]

\* the end of the last track: `end_ms = start_ms + (4 * 60 * 1000)`
tail_end_short(start_ms) == start_ms + (4 * 60)
tail_end(start_ms) == start_ms + (4 * 60 * 1000)

\* a track that is not the last and whose end_ms is still None is skipped
without_end_guessed(start_ms) == TimingTuple(start_ms, start_ms + (4 * 60 * 1000))
without_end(start_ms) == TimingNone

\* __get_track_timings__(track, track_index, tracks); track_index is 0-based,
\* tracks[track_index + 1] of the source is all_tracks[track_index + 2] here.
get_track_timings(track, track_index, all_tracks) ==
    IF ~track.mapping THEN TimingRaise("AttributeError")
    ELSE
    LET timestamp == timestamp_get(track.timestamp) IN
    IF ~truthy_timestamp(timestamp) THEN TimingNone
    ELSE
    LET start_ms == format_time_ms(timestamp) IN
    IF start_ms.kind = "None" THEN TimingNone
    ELSE IF start_ms.kind # "int" THEN TimingRaise(start_ms.kind)
    ELSE IF track_index < Len(all_tracks) - 1
    THEN LET next == all_tracks[track_index + 2] IN
         IF ~next.mapping THEN TimingRaise("AttributeError")
         ELSE
         LET next_timestamp == timestamp_get(next.timestamp)
             end_ms == IF truthy_timestamp(next_timestamp)
                       THEN format_time_ms(next_timestamp)
                       ELSE ReturnNone
         IN  IF end_ms.kind = "None" THEN without_end(start_ms.val)
             ELSE IF end_ms.kind # "int" THEN TimingRaise(end_ms.kind)
             ELSE TimingTuple(start_ms.val, end_ms.val)
    ELSE TimingTuple(start_ms.val, tail_end(start_ms.val))

\* __format_chapter_title__ testing `artist is not None` instead of `artist`
format_chapter_title_not_none(track) ==
    LET title == dict_get_default(track.title, PyStr(<<"Unknown Title">>))
        artist == dict_get(track.artist)
    IN  IF artist.kind # "None"
        THEN PyStr(str_cat(str_cat(py_format(artist), <<" - ">>), py_format(title)))
        ELSE title

\* __format_chapter_title__(track)
format_chapter_title(track) ==
    LET title == dict_get_default(track.title, PyStr(<<"Unknown Title">>))
        artist == dict_get(track.artist)
    IN  IF truthy(artist)
        THEN PyStr(str_cat(str_cat(py_format(artist), <<" - ">>), py_format(title)))
        ELSE title

\* __create_chapter_metadata__(start_ms, end_ms, title): a list of five strings
create_chapter_metadata(start_ms, end_ms, title) ==
    << <<"[CHAPTER]">>,
       <<"TIMEBASE=1/1000">>,
       <<"START=" \o ToString(start_ms)>>,
       <<"END=" \o ToString(end_ms)>>,
       str_cat(<<"title=">>, py_format(title)) >>

\* the exceptions __process_track__ catches
Caught == {"KeyError", "ValueError", "TypeError"}

\* __process_track__(track, track_index, tracks): the chapter's five strings,
\* None, or an exception that is not caught.
process_track(track, track_index, all_tracks) ==
    LET timing == get_track_timings(track, track_index, all_tracks)
        none == [kind |-> "None", start_ms |-> 0, end_ms |-> 0,
                 title |-> PyNone, strings |-> <<>>]
    IN  IF timing.kind = "None" THEN none
        ELSE IF timing.kind = "tuple"
        THEN LET chapter_title == format_chapter_title(track)
             IN  [kind |-> "list", start_ms |-> timing.start_ms,
                  end_ms |-> timing.end_ms, title |-> chapter_title,
                  strings |-> create_chapter_metadata(timing.start_ms,
                                                      timing.end_ms, chapter_title)]
        ELSE IF timing.kind \in Caught THEN none
        ELSE [none EXCEPT !.kind = timing.kind]

\* `len(metadata) < 1` instead of `<= 1`
no_chapters_off_by_one(md) == Len(md) < 1

\* `len(metadata) <= 1`: only the header was collected
no_chapters(md) == Len(md) <= 1

Returned(text) == [kind |-> "text", text |-> text]
Raised(exc) == [kind |-> exc, text |-> <<>>]

\* generate_ffmetadata(tracks) up to the loop: __validate_tracks__ and the header
generate_ffmetadata_call(arg) ==
    /\ tracks' = arg
    /\ i' = 0
    /\ chapters' = <<>>
    /\ IF Len(arg) = 0
       THEN /\ result' = Raised("MetadataError")
            /\ metadata' = <<>>
            /\ pc' = "done"
       ELSE /\ metadata' = << <<";FFMETADATA1">> >>
            /\ pc' = "loop"
            /\ UNCHANGED result
    /\ UNCHANGED <<time_fields, time_str, time_ms>>

\* one iteration of `for i, track in enumerate(tracks)`
ProcessTrack ==
    /\ pc = "loop"
    /\ i < Len(tracks)
    /\ LET chapter_metadata == process_track(tracks[i + 1], i, tracks) IN
       CASE chapter_metadata.kind = "list" ->
              /\ metadata' = metadata \o chapter_metadata.strings
              /\ chapters' = Append(chapters,
                                 [index |-> i,
                                  start_ms |-> chapter_metadata.start_ms,
                                  end_ms |-> chapter_metadata.end_ms,
                                  title |-> chapter_metadata.title])
              /\ i' = i + 1
              /\ UNCHANGED <<pc, result>>
         [] chapter_metadata.kind = "None" ->
              /\ i' = i + 1
              /\ UNCHANGED <<pc, result, metadata, chapters>>
         [] OTHER ->
              /\ result' = Raised(chapter_metadata.kind)
              /\ pc' = "done"
              /\ UNCHANGED <<i, metadata, chapters>>
    /\ UNCHANGED <<tracks, time_fields, time_str, time_ms>>
    /\ UNCHANGED cli_vars

\* after the loop: the emptiness check and the join
Finish ==
    /\ pc = "loop"
    /\ i = Len(tracks)
    /\ result' = IF no_chapters(metadata)
                 THEN Raised("MetadataError")
                 ELSE Returned(join_newline(metadata))
    /\ pc' = "done"
    /\ UNCHANGED <<tracks, i, metadata, chapters, time_fields, time_str, time_ms>>
    /\ UNCHANGED cli_vars

(***************************************************************************)
(* Inputs of generate_ffmetadata.                                          *)
(***************************************************************************)
TimestampText(chars) == [kind |-> "str", chars |-> chars]
TimestampAbsent == [kind |-> "absent", chars |-> <<>>]

\* timestamp entries of a RawTrack: a text or absent
RawTimestamps ==
    { TimestampAbsent,
      TimestampText(<<>>),
      TimestampText(<<"0", ":", "3", "4">>),
      TimestampText(<<"3", ":", "5", "3">>),
      TimestampText(<<"b", "a", "d">>) }

\* title and artist entries of a RawTrack
RawTitles ==
    { [title |-> PyStr(<<"Title1">>), artist |-> PyStr(<<"Artist1">>)],
      [title |-> PyStr(<<"Z">>), artist |-> PyStr(<<"">>)],
      [title |-> Absent, artist |-> Absent],
      [title |-> PyStr(<<"A", "[CHAPTER]">>), artist |-> PyNone] }

RawTrack(ts, ta) ==
    [mapping |-> TRUE, timestamp |-> ts, title |-> ta.title, artist |-> ta.artist]

RawTracks == { RawTrack(ts, ta) : ts \in RawTimestamps, ta \in RawTitles }

RawTrackLists == UNION { [1..n -> RawTracks] : n \in 0..MaxTracks }

GenerateCall ==
    /\ pc = "idle"
    /\ \E arg \in RawTrackLists : generate_ffmetadata_call(arg)
    /\ UNCHANGED cli_vars

Next == GenerateCall \/ ProcessTrack \/ Finish

Spec == Init /\ [][Next]_vars

(***************************************************************************)
(* Track records outside the RawTrack shape: a list element that is not a  *)
(* mapping, and mappings whose timestamp is a list, an int, or whose title *)
(* is None.                                                                *)
(***************************************************************************)
MalformedTracks ==
    { [mapping |-> FALSE, timestamp |-> TimestampAbsent, title |-> Absent,
       artist |-> Absent],
      [mapping |-> TRUE, timestamp |-> [kind |-> "list", chars |-> <<":">>],
       title |-> PyStr(<<"Title1">>), artist |-> Absent],
      [mapping |-> TRUE, timestamp |-> [kind |-> "int", chars |-> <<>>],
       title |-> PyStr(<<"Title1">>), artist |-> Absent],
      [mapping |-> TRUE, timestamp |-> TimestampText(<<"0", ":", "3", "4">>),
       title |-> PyNone, artist |-> Absent] }

\* the elements a track list may hold: RawTracks of every timestamp, and the
\* malformed records
AnyTracks ==
    { RawTrack(ts, [title |-> PyStr(<<"Title1">>), artist |-> Absent]) :
        ts \in RawTimestamps } \cup MalformedTracks

AnyTrackLists == UNION { [1..n -> AnyTracks] : n \in 0..MaxTracks }

GenerateCallAny ==
    /\ pc = "idle"
    /\ \E arg \in AnyTrackLists : generate_ffmetadata_call(arg)
    /\ UNCHANGED cli_vars

NextAny == GenerateCallAny \/ ProcessTrack \/ Finish

SpecAny == Init /\ [][NextAny]_vars

(***************************************************************************)
(* Vocabulary of the properties.                                           *)
(***************************************************************************)
\* the track's timestamp is present and parses
Parses(track) ==
    /\ track.mapping
    /\ track.timestamp.kind = "str"
    /\ format_time_text(track.timestamp.chars).kind = "int"

ParsedMs(track) == format_time_text(track.timestamp.chars).val

\* the track at 0-based index idx produced a chapter
Emitted(idx) == \E k \in 1..Len(chapters) : chapters[k].index = idx

ChapterOf(idx) == chapters[CHOOSE k \in 1..Len(chapters) : chapters[k].index = idx]

\* a text field made only of an optional sign and decimal digits
IsIntegerField(f) ==
    LET body == IF Len(f) > 0 /\ f[1] \in {"-", "+"} THEN Tail(f) ELSE f
    IN  Len(body) > 0 /\ \A k \in 1..Len(body) : body[k] \in Digits

FieldValue(f) == py_int(f).val

\* the positions of the "[CHAPTER]" lines of a text
ChapterLines(text) == { p \in 1..Len(text) : text[p] = "[CHAPTER]" }

\* the artist entry of a track is present: a non-empty string
ArtistPresent(track) == track.artist.kind = "str" /\ track.artist.lines # <<"">>

(***************************************************************************)
(* C1: every chapter emitted by generate_ffmetadata has END strictly       *)
(* greater than START, whatever the timestamps of the input tracks are.    *)
(***************************************************************************)
C1_EndAfterStart ==
    \A k \in 1..Len(chapters) : chapters[k].end_ms > chapters[k].start_ms

(***************************************************************************)
(* C2: the emitted chapters are in the order of their input tracks, and    *)
(* for two consecutive chapters the earlier START is less than the later   *)
(* START and the earlier END is not greater than the later START.          *)
(***************************************************************************)
C2_IncreasingNonOverlapping ==
    \A k \in 1..(Len(chapters) - 1) :
        /\ chapters[k].index < chapters[k + 1].index
        /\ chapters[k].start_ms < chapters[k + 1].start_ms
        /\ chapters[k].end_ms <= chapters[k + 1].start_ms

(***************************************************************************)
(* C3: a track that is not the last one, once the loop has processed it,   *)
(* has produced a chapter if and only if its own timestamp is present and  *)
(* parses and the next track's timestamp is present and parses; the        *)
(* chapter then starts at its own parsed time and ends exactly at the next *)
(* track's parsed time (no end time is guessed).                           *)
(***************************************************************************)
C3_NonLastTrackRule ==
    \A idx \in 0..(Len(tracks) - 2) :
        idx < i =>
            /\ Emitted(idx) <=> (Parses(tracks[idx + 1]) /\ Parses(tracks[idx + 2]))
            /\ Emitted(idx) =>
                /\ ChapterOf(idx).start_ms = ParsedMs(tracks[idx + 1])
                /\ ChapterOf(idx).end_ms = ParsedMs(tracks[idx + 2])

\* a finished call in which one non-last track was emitted and another, with a
\* valid timestamp of its own, was dropped because the next one does not parse
C3_Witness ==
    /\ pc = "done"
    /\ \E idx \in 0..(Len(tracks) - 2) : Emitted(idx)
    /\ \E idx \in 0..(Len(tracks) - 2) :
        /\ Parses(tracks[idx + 1])
        /\ ~Parses(tracks[idx + 2])
        /\ ~Emitted(idx)

(***************************************************************************)
(* C4: the last track, once processed, produces a chapter if and only if   *)
(* its own timestamp is present and parses, and that chapter ends exactly  *)
(* 240000 ms after its start; every chapter of another track ends at the   *)
(* parsed time of the track after it, never at a default.                  *)
(***************************************************************************)
C4_LastTrackRule ==
    LET last == Len(tracks) - 1 IN
    /\ (Len(tracks) > 0 /\ last < i) =>
        /\ Emitted(last) <=> Parses(tracks[last + 1])
        /\ Emitted(last) =>
            /\ ChapterOf(last).start_ms = ParsedMs(tracks[last + 1])
            /\ ChapterOf(last).end_ms = ChapterOf(last).start_ms + 240000
    /\ \A k \in 1..Len(chapters) :
        chapters[k].index < last =>
            /\ Parses(tracks[chapters[k].index + 2])
            /\ chapters[k].end_ms = ParsedMs(tracks[chapters[k].index + 2])

\* a finished call whose last track was emitted after an earlier track was
\* dropped for want of an end time
C4_Witness ==
    /\ pc = "done"
    /\ Len(tracks) >= 2
    /\ Emitted(Len(tracks) - 1)
    /\ \E idx \in 0..(Len(tracks) - 2) : Parses(tracks[idx + 1]) /\ ~Emitted(idx)

(***************************************************************************)
(* C5: generate_ffmetadata raises MetadataError for an empty list and for  *)
(* a list all of whose tracks are dropped; in every other case it returns  *)
(* a text with at least one chapter; it never returns the header alone.    *)
(***************************************************************************)
C5_ErrorOrChapters ==
    pc = "done" =>
        /\ Len(tracks) = 0 => result.kind = "MetadataError"
        /\ (Len(tracks) > 0 /\ Len(chapters) = 0) => result.kind = "MetadataError"
        /\ (Len(tracks) > 0 /\ Len(chapters) > 0) =>
            /\ result.kind = "text"
            /\ ChapterLines(result.text) # {}
        /\ result.kind = "text" =>
            /\ result.text # <<";FFMETADATA1">>
            /\ Len(chapters) >= 1

\* a finished call on a non-empty list all of whose tracks were dropped
C5_Witness ==
    /\ pc = "done"
    /\ Len(tracks) >= 2
    /\ \E idx \in 0..(Len(tracks) - 1) : Parses(tracks[idx + 1])
    /\ Len(chapters) = 0
    /\ result.kind = "MetadataError"

(***************************************************************************)
(* C6: whatever an individual track record is missing or has malformed,    *)
(* including a record that is not a mapping, the call ends by returning    *)
(* metadata text or by raising MetadataError; no other exception escapes.  *)
(***************************************************************************)
C6_OnlyMetadataErrorEscapes ==
    pc = "done" => result.kind \in {"text", "MetadataError"}

(***************************************************************************)
(* C7: format_time_ms returns (H*3600 + M*60 + S)*1000 for three integer   *)
(* fields, (M*60 + S)*1000 for two, N*1000 for a colon-free integer, and   *)
(* None, without raising, for every other text.                            *)
(***************************************************************************)
C7_TimeFormula ==
    pc = "time_done" =>
        LET n == Len(time_fields)
            integers == \A k \in 1..n : IsIntegerField(time_fields[k])
            v(k) == FieldValue(time_fields[k])
        IN  IF integers /\ n = 3
            THEN time_ms = ReturnInt((v(1) * 3600 + v(2) * 60 + v(3)) * 1000)
            ELSE IF integers /\ n = 2
            THEN time_ms = ReturnInt((v(1) * 60 + v(2)) * 1000)
            ELSE IF integers /\ n = 1
            THEN time_ms = ReturnInt(v(1) * 1000)
            ELSE time_ms = ReturnNone

\* HH:MM:SS with a non-zero hour was converted
C7_Witness ==
    /\ pc = "time_done"
    /\ Len(time_fields) = 3
    /\ time_ms.kind = "int"
    /\ time_ms.val >= 3600 * 1000

(***************************************************************************)
(* C8: every value format_time_ms returns other than None is a             *)
(* non-negative number of milliseconds, for every input text.              *)
(***************************************************************************)
C8_NonNegativeMs ==
    (pc = "time_done" /\ time_ms.kind = "int") => time_ms.val >= 0

(***************************************************************************)
(* C9: whenever generate_ffmetadata returns, the text begins with the line *)
(* ";FFMETADATA1" and has exactly one "[CHAPTER]" line per emitted         *)
(* chapter, in chapter order, each immediately followed by the TIMEBASE,   *)
(* START, END and title lines of that chapter; for every title string.     *)
(***************************************************************************)
C9_OneBlockPerChapter ==
    (pc = "done" /\ result.kind = "text") =>
        LET text == result.text IN
        /\ text[1] = ";FFMETADATA1"
        /\ Cardinality(ChapterLines(text)) = Len(chapters)
        /\ \A k \in 1..Len(chapters) :
            \E p \in ChapterLines(text) :
                /\ Cardinality({q \in ChapterLines(text) : q < p}) = k - 1
                /\ p + 4 <= Len(text)
                /\ text[p + 1] = "TIMEBASE=1/1000"
                /\ text[p + 2] = "START=" \o ToString(chapters[k].start_ms)
                /\ text[p + 3] = "END=" \o ToString(chapters[k].end_ms)
                /\ text[p + 4] = "title=" \o py_format(chapters[k].title)[1]

(***************************************************************************)
(* C10: the title of each emitted chapter is "<artist> - <title>" when the *)
(* track's artist is present and the bare track title when the artist is   *)
(* missing, None or empty; it is a string derived from that track alone,   *)
(* and it is the text written after "title=".                              *)
(***************************************************************************)
C10_ChapterTitle ==
    \A k \in 1..Len(chapters) :
        LET track == tracks[chapters[k].index + 1]
            written == metadata[1 + 5 * k]
        IN  /\ chapters[k].title.kind = "str"
            /\ written = str_cat(<<"title=">>, chapters[k].title.lines)
            /\ track.title.kind = "str" =>
                chapters[k].title.lines =
                    IF ArtistPresent(track)
                    THEN str_cat(str_cat(track.artist.lines, <<" - ">>), track.title.lines)
                    ELSE track.title.lines

\* a finished call with a chapter titled "<artist> - <title>" and a chapter of a
\* track whose artist is the empty string
C10_Witness ==
    /\ pc = "done"
    /\ \E k \in 1..Len(chapters) :
        /\ ArtistPresent(tracks[chapters[k].index + 1])
        /\ chapters[k].title.lines = <<"Artist1 - Title1">>
    /\ \E k \in 1..Len(chapters) :
        /\ tracks[chapters[k].index + 1].artist = PyStr(<<"">>)
        /\ chapters[k].title.lines = <<"Z">>

\* ------------------------------------------------------------------
\* scraper.py: the BeautifulSoup tree
\* ------------------------------------------------------------------
\* A tree is the sequence of the elements below its root, in document order;
\* depth 1 is a child of the root.  An element carries the selector it
\* matches (kind), its own text node (a sequence of words, " " being white
\* space) placed before its children, and whether querying it raises.
Element(kind, depth, text) ==
    [id |-> 0, kind |-> kind, depth |-> depth, text |-> text, raises |-> FALSE]

NoElement == [id |-> 0, kind |-> "None", depth |-> 0, text |-> <<>>, raises |-> FALSE]

\* BeautifulSoup(html_content, 'html.parser'): every element becomes an object
\* of its own; id is that identity
BeautifulSoup(outline) ==
    [k \in 1..Len(outline) |-> [outline[k] EXCEPT !.id = k]]

SubtreeEnd(tree, p) ==
    CHOOSE q \in p..Len(tree) :
        /\ \A k \in (p + 1)..q : tree[k].depth > tree[p].depth
        /\ q = Len(tree) \/ tree[q + 1].depth <= tree[p].depth

\* an element with everything below it
Subtree(tree, p) == SubSeq(tree, p, SubtreeEnd(tree, p))

\* everything below an element, as a tree of its own
Contents(tree, p) ==
    LET sub == Subtree(tree, p)
    IN  [k \in 1..(Len(sub) - 1) |->
            [sub[k + 1] EXCEPT !.depth = @ - tree[p].depth]]

PosOf(tree, id) == CHOOSE p \in 1..Len(tree) : tree[p].id = id

Holds(tree, id) == \E p \in 1..Len(tree) : tree[p].id = id

\* tag.select(selector): the matching descendants, in document order
select(tree, selector) == SelectSeq(tree, LAMBDA e : e.kind = selector)

\* tag.select_one(selector): the first of them, or None
select_one(tree, selector) ==
    LET found == select(tree, selector)
    IN  IF found = <<>> THEN NoElement ELSE Head(found)

\* element.extract(): the tree without the element and what is below it
extract(tree, id) ==
    LET p == PosOf(tree, id)
    IN  SubSeq(tree, 1, p - 1) \o SubSeq(tree, SubtreeEnd(tree, p) + 1, Len(tree))

\* the element and what is below it, as it hangs below a new parent
Moved(tree, id) ==
    LET p == PosOf(tree, id)
        sub == Subtree(tree, p)
    IN  [k \in 1..Len(sub) |-> [sub[k] EXCEPT !.depth = @ - tree[p].depth + 1]]

\* tag.append(item) for each item: an element that already has a parent is
\* taken out of it first, wherever it is at that moment
RECURSIVE append_items(_, _, _)
append_items(soup, wrapper, items) ==
    IF items = <<>> THEN wrapper
    ELSE LET id == Head(items).id
         IN  IF Holds(wrapper, id)
             THEN append_items(soup, extract(wrapper, id) \o Moved(wrapper, id),
                               Tail(items))
             ELSE append_items(extract(soup, id), wrapper \o Moved(soup, id),
                               Tail(items))

\* element.text: the text nodes of the element and of everything below it
RECURSIVE text_of(_)
text_of(sub) ==
    IF sub = <<>> THEN <<>> ELSE Head(sub).text \o text_of(Tail(sub))

RECURSIVE lstrip(_)
lstrip(text) ==
    IF text # <<>> /\ Head(text) = " " THEN lstrip(Tail(text)) ELSE text

RECURSIVE rstrip(_)
rstrip(text) ==
    IF text # <<>> /\ text[Len(text)] = " "
    THEN rstrip(SubSeq(text, 1, Len(text) - 1))
    ELSE text

\* str.strip()
strip(text) == rstrip(lstrip(text))

\* the words that re.compile(r'\d+:\d+') finds something in
TimeLike == {"0:34", "3:53", "7:42"}

re_search(text) == \E k \in 1..Len(text) : text[k] \in TimeLike

\* item.find_all(text=re.compile(r'\d+:\d+')): the text nodes the pattern
\* is found in, in document order
find_all_text(sub) ==
    SelectSeq([k \in 1..Len(sub) |-> sub[k].text], re_search)

\* ------------------------------------------------------------------
\* scraper.py: TracklistScraper.parse_tracklist
\* ------------------------------------------------------------------
container_selectors ==
    << "div.tlpContainer", "div#tlp_container", "div.tlpItemsContainer",
       "div#tlplist", "div.tl-container" >>

track_selectors ==
    << "div.tlpItem", "div.tl-item", "div.tracklistItem", "div[data-track]" >>

track_item_selectors ==
    << "div.tlpItem", "div.tl-item", "div.tracklistItem", "div[data-track]" >>

timestamp_selectors ==
    << "div.tlpCuePointTimecode span.tcWrap", "div.cue-time", "span.time",
       "span.timestamp", "div.tl-time" >>

title_selectors ==
    << "span.trackValue", "div.tl-title", "span.title", "div.track-title" >>

\* a str of words, and None
Text(words) == [kind |-> "str", words |-> words]
NoText == [kind |-> "None", words |-> <<>>]

\* `if timestamp:` / `if not track_full_title:`
nonempty(v) == v.kind = "str" /\ v.words # <<>>

\* the first container selector, in list order, that select_one finds
RECURSIVE find_container(_, _)
find_container(soup, k) ==
    IF k > Len(container_selectors) THEN NoElement
    ELSE LET container == select_one(soup, container_selectors[k])
         IN  IF container # NoElement THEN container
             ELSE find_container(soup, k + 1)

\* the matches of the first track selector that matches anything in the page
RECURSIVE direct_track_items(_, _)
direct_track_items(soup, k) ==
    IF k > Len(track_selectors) THEN <<>>
    ELSE LET track_items == select(soup, track_selectors[k])
         IN  IF track_items # <<>> THEN track_items
             ELSE direct_track_items(soup, k + 1)

\* the tracklist container: found tells whether there is one, contents is
\* what is below it, wrapped tells that it is the div made by soup.new_tag
tracklist_container(soup) ==
    LET container == find_container(soup, 1)
    IN  IF container # NoElement
        THEN [found |-> TRUE, wrapped |-> FALSE,
              contents |-> Contents(soup, PosOf(soup, container.id))]
        ELSE LET track_items == direct_track_items(soup, 1)
             IN  IF track_items # <<>>
                 THEN [found |-> TRUE, wrapped |-> TRUE,
                       contents |-> append_items(soup, <<>>, track_items)]
                 ELSE [found |-> FALSE, wrapped |-> FALSE, contents |-> <<>>]

\* every match of any track item selector, where only the first selector
\* that matches should count
all_track_items(contents, k) ==
    SelectSeq(contents,
              LAMBDA e : \E j \in k..Len(track_item_selectors) :
                            e.kind = track_item_selectors[j])

\* the matches, inside the container, of the first track item selector that
\* matches anything there
RECURSIVE container_track_items(_, _)
container_track_items(contents, k) ==
    IF k > Len(track_item_selectors) THEN <<>>
    ELSE LET items == select(contents, track_item_selectors[k])
         IN  IF items # <<>> THEN items
             ELSE container_track_items(contents, k + 1)

\* the text of the first timestamp selector that matches in the item
RECURSIVE find_timestamp(_, _)
find_timestamp(item, k) ==
    IF k > Len(timestamp_selectors) THEN NoText
    ELSE LET timestamp_elem == select_one(Tail(item), timestamp_selectors[k])
         IN  IF timestamp_elem # NoElement
             THEN Text(strip(text_of(Subtree(item, PosOf(item, timestamp_elem.id)))))
             ELSE find_timestamp(item, k + 1)

\* without a timestamp so far, the first text node with time-like content
extract_timestamp(item) ==
    LET timestamp == find_timestamp(item, 1)
        elems == find_all_text(item)
    IN  IF nonempty(timestamp) THEN timestamp
        ELSE IF elems # <<>> THEN Text(strip(Head(elems)))
        ELSE timestamp

\* the text of the first title selector that matches in the item
RECURSIVE find_title(_, _)
find_title(item, k) ==
    IF k > Len(title_selectors) THEN Text(<<>>)
    ELSE LET title_elem == select_one(Tail(item), title_selectors[k])
         IN  IF title_elem # NoElement
             THEN Text(strip(text_of(Subtree(item, PosOf(item, title_elem.id)))))
             ELSE find_title(item, k + 1)

extract_title(item) ==
    LET track_full_title == find_title(item, 1)
    IN  IF nonempty(track_full_title) THEN track_full_title
        ELSE Text(<<"Unknown Track">>)

\* the dictionary of one track; record is the element it was read from
track_info(item) ==
    [title |-> extract_title(item), artist |-> NoText,
     timestamp |-> extract_timestamp(item), record |-> Head(item).id]

\* a loop that stops at the first item it leaves out
RECURSIVE extract_tracks_until_drop(_, _)
extract_tracks_until_drop(contents, items) ==
    IF items = <<>> THEN <<>>
    ELSE LET item == Subtree(contents, PosOf(contents, Head(items).id))
         IN  IF Head(item).raises \/ ~nonempty(track_info(item).timestamp)
             THEN <<>>
             ELSE <<track_info(item)>>
                  \o extract_tracks_until_drop(contents, Tail(items))

\* the loop over the track items: an item whose extraction raises, or that
\* has no timestamp, is logged and left out
RECURSIVE extract_tracks(_, _)
extract_tracks(contents, items) ==
    IF items = <<>> THEN <<>>
    ELSE LET item == Subtree(contents, PosOf(contents, Head(items).id))
             rest == extract_tracks(contents, Tail(items))
         IN  IF Head(item).raises THEN rest
             ELSE IF nonempty(track_info(item).timestamp)
                  THEN <<track_info(item)>> \o rest
                  ELSE rest

TrackList(found) == [kind |-> "list", msg |-> "", tracks |-> found]
ScrapingError(msg) == [kind |-> "ScrapingError", msg |-> msg, tracks |-> <<>>]

\* returning whatever was collected, where an empty list should raise
unchecked_tracks(found) == TrackList(found)

\* `if not tracks: raise ScrapingError(...)`, else `return tracks`
checked_tracks(found) ==
    IF found = <<>>
    THEN ScrapingError("Failed to extract any valid track information")
    ELSE TrackList(found)

\* the body of the try block of parse_tracklist
try_parse_tracklist(soup) ==
    LET container == tracklist_container(soup)
        track_items == container_track_items(container.contents, 1)
    IN  IF ~container.found
        THEN ScrapingError("Could not find tracklist container in the page")
        ELSE IF track_items = <<>>
        THEN ScrapingError("No track items found in the tracklist")
        ELSE checked_tracks(extract_tracks(container.contents, track_items))

\* parse_tracklist: whatever the body raises is raised again as ScrapingError
parse_tracklist(html_content) ==
    LET outcome == try_parse_tracklist(BeautifulSoup(html_content))
    IN  IF outcome.kind = "list" THEN outcome
        ELSE ScrapingError("Failed to parse tracklist: " \o outcome.msg)

\* what the two "Found ..." log lines of parse_tracklist tell: the container
\* element (0: none in the page) and the track items, by identity
ids_of(elements) == [k \in 1..Len(elements) |-> elements[k].id]

found_in(soup) ==
    LET container == tracklist_container(soup)
    IN  [container |-> find_container(soup, 1).id,
         wrapped |-> container.wrapped,
         records |-> IF container.found
                     THEN ids_of(container_track_items(container.contents, 1))
                     ELSE <<>>]

\* ------------------------------------------------------------------
\* the pages parse_tracklist is given
\* ------------------------------------------------------------------
MaxItems == 2

Child(kind, text) == Element(kind, 1, text)

\* a track item as the site writes it: cue point and track value
StandardItem ==
    << Element("div.tlpItem", 0, <<>>),
       Child("div.tlpCuePointTimecode span.tcWrap", <<" ", "0:34", " ">>),
       Child("span.trackValue", <<"Title">>) >>

\* a track item of the second markup
OtherItem ==
    << Element("div.tl-item", 0, <<>>),
       Child("div.cue-time", <<"3:53">>),
       Child("div.tl-title", <<" ", "Other">>) >>

\* the first timestamp and title selectors match elements without text, a
\* remark names a time, later selectors match elements with text
EmptyFirstItem ==
    << Element("div.tlpItem", 0, <<>>),
       Child("div.tlpCuePointTimecode span.tcWrap", <<" ">>),
       Child("span", <<"at", " ", "0:34">>),
       Child("div.cue-time", <<"3:53">>),
       Child("span.trackValue", <<>>),
       Child("div.tl-title", <<"Other">>) >>

\* no timestamp element, the time is inside a sentence
RemarkItem ==
    << Element("div.tlpItem", 0, <<>>),
       Child("span.trackValue", <<"Title">>),
       Child("span", <<"at", " ", "7:42">>) >>

\* no timestamp or title element, the time is the item's own text
BareItem ==
    << Element("div.tlpItem", 0, <<"7:42", " ">>) >>

\* nothing that tells a time
UntimedItem ==
    << Element("div.tlpItem", 0, <<>>),
       Child("span.trackValue", <<"Title">>) >>

\* the later selectors of the lists match first in the document
ReversedItem ==
    << Element("div.tl-item", 0, <<>>),
       Child("span.time", <<"3:53">>),
       Child("div.cue-time", <<"0:34">>),
       Child("span.title", <<"Other">>),
       Child("div.tl-title", <<"Title">>) >>

\* an item whose queries raise
RaisingItem ==
    << [Element("div.tlpItem", 0, <<>>) EXCEPT !.raises = TRUE],
       Child("div.tlpCuePointTimecode span.tcWrap", <<"0:34">>) >>

ItemTemplates ==
    { StandardItem, OtherItem, EmptyFirstItem, RemarkItem, BareItem,
      UntimedItem, ReversedItem, RaisingItem }

\* the container elements of a page, in document order
ContainerLayouts ==
    { <<>>,
      << "div.tlpContainer" >>,
      << "div#tlp_container" >>,
      << "div#tlp_container", "div.tlpContainer" >>,
      << "div.tlpContainer", "div.tlpContainer" >> }

\* an item of a page: the container it is in (0: none), whether it is inside
\* the item before it, and what it is made of
Slots(containers) ==
    [place : 0..Len(containers), nested : BOOLEAN, item : ItemTemplates]

WellNested(slots) ==
    \A k \in 1..Len(slots) :
        slots[k].nested =>
            \E j \in 1..(k - 1) :
                slots[j].place = slots[k].place /\ ~slots[j].nested

Shift(fragment, d) ==
    [k \in 1..Len(fragment) |-> [fragment[k] EXCEPT !.depth = @ + d]]

RECURSIVE PlaceOutline(_, _, _)
PlaceOutline(slots, place, base) ==
    IF slots = <<>> THEN <<>>
    ELSE LET s == Head(slots)
         IN  IF s.place # place THEN PlaceOutline(Tail(slots), place, base)
             ELSE Shift(s.item, IF s.nested THEN base + 1 ELSE base)
                  \o PlaceOutline(Tail(slots), place, base)

ContainerOutline(containers, slots, j) ==
    IF j > Len(containers) THEN <<>>
    ELSE <<Element(containers[j], 1, <<>>)>> \o PlaceOutline(slots, j, 2)

\* the page: the containers with their items, then the items outside them
Page(containers, slots) ==
    ContainerOutline(containers, slots, 1)
    \o ContainerOutline(containers, slots, 2)
    \o PlaceOutline(slots, 0, 1)

ParseCall ==
    /\ pc = "idle"
    /\ \E containers \in ContainerLayouts, n \in 0..MaxItems :
        \E slots \in [1..n -> Slots(containers)] :
            /\ WellNested(slots)
            /\ html' = Page(containers, slots)
            /\ parsed' = parse_tracklist(Page(containers, slots))
            /\ located' = found_in(BeautifulSoup(Page(containers, slots)))
    /\ pc' = "parsed"
    /\ UNCHANGED <<tracks, i, metadata, chapters, result, time_fields, time_str,
                   time_ms, url, url_result, stage, events, exit_code>>

NextParse == ParseCall

SpecParse == Init /\ [][NextParse]_vars

\* ------------------------------------------------------------------
\* claims about parse_tracklist
\* ------------------------------------------------------------------
\* the selectors of a list that match something in a tree
Matching(tree, selectors) ==
    { k \in 1..Len(selectors) : select(tree, selectors[k]) # <<>> }

\* the first of them, in list order
FirstMatching(tree, selectors) ==
    CHOOSE k \in Matching(tree, selectors) :
        \A j \in Matching(tree, selectors) : k <= j

\* the element of the page that was taken as the container
ContainerPos == PosOf(BeautifulSoup(html), located.container)

\* C11: the container is the first match of the first container selector, in
\* list order, that matches anything in the page, and the track items are
\* exactly the matches inside that container of the first track item
\* selector that matches anything there; the tracks returned come from them.
C11_PriorityChain ==
    (pc = "parsed" /\ Matching(BeautifulSoup(html), container_selectors) # {}) =>
        LET soup == BeautifulSoup(html)
            c == FirstMatching(soup, container_selectors)
            inside == Contents(soup, ContainerPos)
        IN  /\ located.container = Head(select(soup, container_selectors[c])).id
            /\ ~located.wrapped
            /\ IF Matching(inside, track_item_selectors) = {}
               THEN located.records = <<>>
               ELSE located.records =
                        ids_of(select(inside,
                            track_item_selectors[FirstMatching(inside, track_item_selectors)]))
            /\ \A k \in 1..Len(parsed.tracks) :
                \E r \in 1..Len(located.records) :
                    parsed.tracks[k].record = located.records[r]

\* a page where a later container selector matches earlier in the document,
\* and the container holds items of two track item selectors
C11_Witness ==
    /\ pc = "parsed"
    /\ located.container > 1
    /\ select(BeautifulSoup(html), container_selectors[2]) # <<>>
    /\ Cardinality(Matching(Contents(BeautifulSoup(html), ContainerPos),
                            track_item_selectors)) > 1
    /\ parsed.kind = "list"

\* a located track item as parse_tracklist reads it
RecordItem(id) ==
    LET contents == tracklist_container(BeautifulSoup(html)).contents
    IN  Subtree(contents, PosOf(contents, id))

\* the item gets through the filter of the loop
Survives(id) ==
    /\ ~Head(RecordItem(id)).raises
    /\ nonempty(extract_timestamp(RecordItem(id)))

NothingFound ==
    /\ Matching(BeautifulSoup(html), container_selectors) = {}
    /\ Matching(BeautifulSoup(html), track_selectors) = {}

EmptyContainer ==
    /\ Matching(BeautifulSoup(html), container_selectors) # {}
    /\ Matching(Contents(BeautifulSoup(html), ContainerPos), track_item_selectors) = {}

NoSurvivor ==
    /\ located.records # <<>>
    /\ \A r \in 1..Len(located.records) : ~Survives(located.records[r])

\* C12: parse_tracklist raises ScrapingError when the page has neither a
\* container nor a track item, when the container holds no track item, and
\* when no located item gets through the filter; in every other case it
\* returns a list that is not empty; nothing else comes out of it.
C12_ScrapingErrorOrTracks ==
    pc = "parsed" =>
        IF NothingFound \/ EmptyContainer \/ NoSurvivor
        THEN parsed.kind = "ScrapingError" /\ parsed.tracks = <<>>
        ELSE parsed.kind = "list" /\ parsed.tracks # <<>>

\* items were located and every one of them was filtered out
C12_Witness ==
    /\ pc = "parsed"
    /\ NoSurvivor
    /\ Len(located.records) > 1
    /\ parsed.kind = "ScrapingError"

\* the outcome of reading the track items straight from the page, the whole
\* document standing for the container
WholeDocumentOutcome ==
    LET soup == BeautifulSoup(html)
        items == select(soup, track_selectors[FirstMatching(soup, track_selectors)])
        found == extract_tracks(soup, items)
    IN  IF found = <<>>
        THEN ScrapingError("Failed to parse tracklist: "
                           \o "Failed to extract any valid track information")
        ELSE TrackList(found)

\* C16: when no container selector matches and some track selector matches
\* the page, the items processed are the page's matches of the first track
\* selector that matches, in document order, each once, and the outcome is
\* the one of reading those items straight from the page.
C16_WholeDocumentAsContainer ==
    (pc = "parsed" /\ located.wrapped) =>
        /\ located.records =
              ids_of(select(BeautifulSoup(html),
                  track_selectors[FirstMatching(BeautifulSoup(html), track_selectors)]))
        /\ parsed = WholeDocumentOutcome

\* the trimmed text of the first match of a selector inside an item, None
\* when the selector does not match there
SelectorText(item, selector) ==
    LET elem == select_one(Tail(item), selector)
    IN  IF elem = NoElement THEN NoText
        ELSE Text(strip(text_of(Subtree(item, PosOf(item, elem.id)))))

\* the text of the first selector of a list, in list order, whose match has
\* text; None when there is no such selector
FirstNonEmpty(item, selectors) ==
    LET good == { k \in 1..Len(selectors) : nonempty(SelectorText(item, selectors[k])) }
    IN  IF good = {} THEN NoText
        ELSE SelectorText(item, selectors[CHOOSE k \in good : \A j \in good : k <= j])

\* the first digits:digits pattern in the text of an item
FirstPattern(item) ==
    LET words == text_of(item)
        at == { k \in 1..Len(words) : words[k] \in TimeLike }
    IN  IF at = {} THEN NoText
        ELSE Text(<<words[CHOOSE k \in at : \A j \in at : k <= j]>>)

NoSelectorMatches(item, selectors) ==
    \A k \in 1..Len(selectors) : SelectorText(item, selectors[k]) = NoText

\* the timestamp an item has by the rule of C17
RuledTimestamp(item) ==
    IF nonempty(FirstNonEmpty(item, timestamp_selectors))
    THEN FirstNonEmpty(item, timestamp_selectors)
    ELSE IF NoSelectorMatches(item, timestamp_selectors)
    THEN FirstPattern(item)
    ELSE NoText

\* C17: the timestamp of a returned track is the trimmed text of the first
\* timestamp selector, in list order, whose match has text; only when no
\* timestamp selector matches it is the first digits:digits pattern of the
\* item's text; an item for which neither finds anything has no timestamp
\* and is not returned.
C17_TimestampRule ==
    pc = "parsed" =>
        /\ \A k \in 1..Len(parsed.tracks) :
            parsed.tracks[k].timestamp = RuledTimestamp(RecordItem(parsed.tracks[k].record))
        /\ \A r \in 1..Len(located.records) :
            (/\ ~Head(RecordItem(located.records[r])).raises
             /\ ~nonempty(RuledTimestamp(RecordItem(located.records[r]))))
                => \A k \in 1..Len(parsed.tracks) :
                        parsed.tracks[k].record # located.records[r]

\* C18: the title of a returned track is the trimmed text of the first title
\* selector, in list order, whose match has text, and "Unknown Track" when
\* there is none; it is never empty, and the artist is always None.
C18_TitleRule ==
    pc = "parsed" =>
        \A k \in 1..Len(parsed.tracks) :
            LET item == RecordItem(parsed.tracks[k].record)
            IN  /\ parsed.tracks[k].title =
                      IF nonempty(FirstNonEmpty(item, title_selectors))
                      THEN FirstNonEmpty(item, title_selectors)
                      ELSE Text(<<"Unknown Track">>)
                /\ nonempty(parsed.tracks[k].title)
                /\ parsed.tracks[k].artist = NoText

\* the located items that get through the filter, in the order located
Survivors == SelectSeq(located.records, Survives)

\* C19: the tracks returned are the located items in document order without
\* exactly those that have no timestamp or whose extraction raised: each
\* returned track has a timestamp that is not empty, no item that has one is
\* missing, the order is kept, and leaving an item out does not end the loop.
C19_FilterKeepsOrder ==
    (pc = "parsed" /\ located.records # <<>>) =>
        /\ [k \in 1..Len(parsed.tracks) |-> parsed.tracks[k].record] = Survivors
        /\ \A k \in 1..Len(parsed.tracks) : nonempty(parsed.tracks[k].timestamp)
        /\ parsed.kind = "ScrapingError" <=> Survivors = <<>>

\* the first located item is left out and a later one is returned
C19_Witness ==
    /\ pc = "parsed"
    /\ Len(located.records) > 1
    /\ ~Survives(located.records[1])
    /\ Survives(located.records[Len(located.records)])
    /\ parsed.kind = "list"

\* ------------------------------------------------------------------
\* utils.py: validate_url
\* ------------------------------------------------------------------
\* A URL is the sequence of its words, in order; "www." is a host label with
\* its dot, so that words put side by side read as the characters of the URL.
MaxNetlocWords == 3

SchemeWords == {"https", "http"}

NetlocWords ==
    { "www.", "1001tracklists.com", "1001TRACKLISTS.COM", ".evil.example",
      "evil.example", "not", "@", "[" }

\* the words that end the network location
NetlocEnd == {"/", "?", "#"}

ParseResult(scheme, netloc) == [kind |-> "ParseResult", scheme |-> scheme, netloc |-> netloc]

RECURSIVE netloc_of(_)
netloc_of(rest) ==
    IF rest = <<>> \/ Head(rest) \in NetlocEnd THEN <<>>
    ELSE <<Head(rest)>> \o netloc_of(Tail(rest))

\* urllib.parse.urlparse: the scheme is what stands before the first ":", the
\* network location what follows "//" up to the next "/", "?" or "#"; a "["
\* without "]" in it raises ValueError
urlparse(text) ==
    LET has_scheme == Len(text) >= 2 /\ text[1] \in SchemeWords /\ text[2] = ":"
        rest == IF has_scheme THEN SubSeq(text, 3, Len(text)) ELSE text
        netloc == IF rest # <<>> /\ Head(rest) = "//"
                  THEN netloc_of(Tail(rest)) ELSE <<>>
    IN  IF \E k \in 1..Len(netloc) : netloc[k] = "["
        THEN [kind |-> "ValueError", scheme |-> "", netloc |-> <<>>]
        ELSE ParseResult(IF has_scheme THEN text[1] ELSE "", netloc)

\* "1001tracklists.com" in result.netloc
contains_1001tracklists(netloc) ==
    \E k \in 1..Len(netloc) : netloc[k] = "1001tracklists.com"

ReturnTrue == [kind |-> "True", msg |-> ""]
ValidationError(msg) == [kind |-> "ValidationError", msg |-> msg]

validate_url(text) ==
    IF text = <<>> THEN ValidationError("URL cannot be empty")
    ELSE LET parse == urlparse(text)
         IN  IF parse.kind = "ValueError"
             THEN ValidationError("URL validation error: Invalid IPv6 URL")
             ELSE IF parse.scheme = "" \/ parse.netloc = <<>>
             THEN ValidationError("URL validation error: Invalid URL format")
             ELSE IF ~contains_1001tracklists(parse.netloc)
             THEN ValidationError("URL validation error: "
                                  \o "URL must be from 1001tracklists.com domain")
             ELSE ReturnTrue

SchemeParts == { <<>>, <<"https", ":">>, <<"http", ":">> }
SlashParts == { <<>>, <<"//">> }
PathParts == { <<>>, <<"/", "tracklist">>, <<"/", "1001tracklists.com">> }

ValidateUrlCall ==
    /\ pc = "idle"
    /\ \E scheme \in SchemeParts, slashes \in SlashParts, path \in PathParts,
          n \in 0..MaxNetlocWords :
        \E netloc \in [1..n -> NetlocWords] :
            /\ url' = scheme \o slashes \o netloc \o path
            /\ url_result' = validate_url(scheme \o slashes \o netloc \o path)
    /\ pc' = "validated"
    /\ UNCHANGED <<tracks, i, metadata, chapters, result, time_fields, time_str,
                   time_ms, html, parsed, located, stage, events, exit_code>>

NextUrl == ValidateUrlCall

SpecUrl == Init /\ [][NextUrl]_vars

\* the host of a URL: the network location without user information
RECURSIVE HostOf(_)
HostOf(netloc) ==
    IF \E k \in 1..Len(netloc) : netloc[k] = "@"
    THEN HostOf(Tail(netloc))
    ELSE netloc

\* host names do not tell upper from lower case
LowerCase(word) == IF word = "1001TRACKLISTS.COM" THEN "1001tracklists.com" ELSE word

\* the host is 1001tracklists.com or one of its subdomains
InDomain(host) ==
    /\ host # <<>>
    /\ LowerCase(host[Len(host)]) = "1001tracklists.com"
    /\ \A k \in 1..(Len(host) - 1) : host[k] = "www."

\* C15: validate_url returns True for every URL that has a scheme and a host
\* in the 1001tracklists.com domain, and raises ValidationError for every
\* other input: the empty string, a string without scheme or host, and a
\* URL whose host is neither 1001tracklists.com nor a subdomain of it.
C15_OnlyTracklistsDomain ==
    pc = "validated" =>
        LET parse == urlparse(url)
        IN  IF /\ parse.kind = "ParseResult"
               /\ parse.scheme # ""
               /\ InDomain(HostOf(parse.netloc))
            THEN url_result.kind = "True"
            ELSE url_result.kind = "ValidationError"

\* ------------------------------------------------------------------
\* cli.py: main, with scraper.py: fetch_page and metadata.py:
\* save_metadata_to_file
\* ------------------------------------------------------------------
\* one entry of the log of a run: the call made and how it came out
Event(op, out) == [op |-> op, out |-> out]

\* the characters of a word of a timestamp
chars_of_word(word) ==
    CASE word = "0:34" -> <<"0", ":", "3", "4">>
      [] word = "3:53" -> <<"3", ":", "5", "3">>
      [] word = "7:42" -> <<"7", ":", "4", "2">>
      [] word = "at" -> <<"a", "t">>
      [] OTHER -> <<word>>

RECURSIVE chars_of(_)
chars_of(words) ==
    IF words = <<>> THEN <<>>
    ELSE chars_of_word(Head(words)) \o chars_of(Tail(words))

RECURSIVE line_of(_)
line_of(words) ==
    IF words = <<>> THEN "" ELSE Head(words) \o line_of(Tail(words))

\* the list parse_tracklist returned, as generate_ffmetadata reads it
scraped_tracks(found) ==
    [k \in 1..Len(found) |->
        RawTrack(TimestampText(chars_of(found[k].timestamp.words)),
                 [title |-> PyStr(<<line_of(found[k].title.words)>>),
                  artist |-> PyNone])]

\* the URLs main is started with
MainUrls ==
    { <<"https", ":", "//", "www.", "1001tracklists.com", "/", "tracklist">>,
      <<"https", ":", "//", "1001tracklists.com", ".evil.example">>,
      <<"https", ":", "//", "evil.example", "/", "tracklist">>,
      <<"www.", "1001tracklists.com">>,
      <<>> }

\* the output paths main is started with: the default, and one with a NUL
\* character in it
OutputFiles == { <<"output.ffmetadata">>, <<"output", "\\x00", ".ffmetadata">> }

Placed(template) == [place |-> 1, nested |-> FALSE, item |-> template]

\* the pages the site answers with
MainPages ==
    { Page(<<"div.tlpContainer">>, <<Placed(StandardItem), Placed(StandardItem)>>),
      Page(<<"div.tlpContainer">>, <<Placed(StandardItem), Placed(EmptyFirstItem)>>),
      Page(<<"div.tlpContainer">>, <<Placed(UntimedItem), Placed(BareItem)>>),
      Page(<<"div.tlpContainer">>, <<Placed(RemarkItem)>>),
      Page(<<"div.tlpContainer">>, <<>>),
      <<>> }

\* what session.get does: a response with a status code, or RequestException
Responses ==
    { [kind |-> "RequestException", status_code |-> 0, text |-> <<>>],
      [kind |-> "Response", status_code |-> 404, text |-> <<>>],
      [kind |-> "Response", status_code |-> 500, text |-> <<>>] }
    \cup { [kind |-> "Response", status_code |-> 200, text |-> page] : page \in MainPages }

\* the except clauses of main
exit_code_of(exc) ==
    CASE exc = "ValidationError" -> 1
      [] exc = "ScrapingError" -> 2
      [] exc = "MetadataError" -> 3
      [] OTHER -> 4

\* fetch_page after session.get: the text of a 200 response, ScrapingError
\* for every other status and for RequestException
fetch_page_outcome(response) ==
    IF response.kind = "RequestException" THEN "ScrapingError"
    ELSE IF response.status_code # 200 THEN "ScrapingError"
    ELSE "str"

\* asking again after an answer that is not 200
stage_after_get_retrying(response) ==
    IF response.kind = "Response" /\ response.status_code = 200
    THEN "parse" ELSE "get"

\* where main is after fetch_page: in parse_tracklist, or in an except clause
stage_after_get(response) ==
    IF fetch_page_outcome(response) = "str" THEN "parse" ELSE "exit"

\* saving whatever came out of generate_ffmetadata
stage_after_generate_regardless(outcome) == "save"

\* where main is after generate_ffmetadata
stage_after_generate(outcome) ==
    IF outcome.kind = "text" THEN "save" ELSE "exit"

\* save_metadata_to_file: open() raises ValueError for a path with a NUL
\* character; an OSError is raised again as MetadataError
save_metadata_to_file(output_path, os_error) ==
    IF \E k \in 1..Len(output_path) : output_path[k] = "\\x00" THEN "ValueError"
    ELSE IF os_error THEN "MetadataError"
    ELSE "written"

\* main up to validate_url
MainValidate ==
    /\ pc = "idle"
    /\ stage = "start"
    /\ \E u \in MainUrls, output_file \in OutputFiles :
        /\ url' = u
        /\ url_result' = validate_url(u)
        /\ events' = << Event("parse_args", output_file),
                        Event("validate_url", validate_url(u).kind) >>
        /\ IF validate_url(u).kind = "ValidationError"
           THEN /\ stage' = "exit"
                /\ exit_code' = exit_code_of("ValidationError")
           ELSE /\ stage' = "sleep"
                /\ UNCHANGED exit_code
    /\ UNCHANGED <<pc, tracks, i, metadata, chapters, result, time_fields,
                   time_str, time_ms, html, parsed, located>>

\* fetch_page: time.sleep(1)
FetchSleep ==
    /\ stage = "sleep"
    /\ events' = Append(events, Event("time.sleep", "1"))
    /\ stage' = "get"
    /\ UNCHANGED <<pc, tracks, i, metadata, chapters, result, time_fields,
                   time_str, time_ms, html, parsed, located, url, url_result,
                   exit_code>>

\* fetch_page: session.get and what follows it
FetchGet ==
    /\ stage = "get"
    /\ \E response \in Responses :
        /\ events' = Append(events,
              Event("session.get",
                    IF response.kind = "Response"
                    THEN ToString(response.status_code) ELSE response.kind))
        /\ stage' = stage_after_get(response)
        /\ IF stage_after_get(response) = "exit"
           THEN exit_code' = exit_code_of(fetch_page_outcome(response))
           ELSE UNCHANGED exit_code
        /\ html' = response.text
    /\ UNCHANGED <<pc, tracks, i, metadata, chapters, result, time_fields,
                   time_str, time_ms, parsed, located, url, url_result>>

\* get_tracklist: parse_tracklist(html_content)
MainParse ==
    /\ stage = "parse"
    /\ parsed' = parse_tracklist(html)
    /\ located' = found_in(BeautifulSoup(html))
    /\ events' = Append(events, Event("parse_tracklist", parse_tracklist(html).kind))
    /\ IF parse_tracklist(html).kind = "list"
       THEN /\ stage' = "generate"
            /\ UNCHANGED exit_code
       ELSE /\ stage' = "exit"
            /\ exit_code' = exit_code_of(parse_tracklist(html).kind)
    /\ UNCHANGED <<pc, tracks, i, metadata, chapters, result, time_fields,
                   time_str, time_ms, html, url, url_result>>

\* main calls generate_ffmetadata(tracks)
MainGenerate ==
    /\ stage = "generate"
    /\ generate_ffmetadata_call(scraped_tracks(parsed.tracks))
    /\ events' = Append(events, Event("generate_ffmetadata", ""))
    /\ stage' = "generating"
    /\ UNCHANGED <<html, parsed, located, url, url_result, exit_code>>

\* generate_ffmetadata is over
MainGenerated ==
    /\ stage = "generating"
    /\ pc = "done"
    /\ stage' = stage_after_generate(result)
    /\ IF stage_after_generate(result) = "exit"
       THEN exit_code' = exit_code_of(result.kind)
       ELSE UNCHANGED exit_code
    /\ UNCHANGED <<pc, tracks, i, metadata, chapters, result, time_fields,
                   time_str, time_ms, html, parsed, located, url, url_result,
                   events>>

\* main calls save_metadata_to_file(metadata, parsed_args.output_file)
MainSave ==
    /\ stage = "save"
    /\ \E os_error \in BOOLEAN :
        LET outcome == save_metadata_to_file(events[1].out, os_error)
        IN  /\ events' = Append(events, Event("save_metadata_to_file", outcome))
            /\ exit_code' = IF outcome = "written" THEN 0 ELSE exit_code_of(outcome)
    /\ stage' = "exit"
    /\ UNCHANGED <<pc, tracks, i, metadata, chapters, result, time_fields,
                   time_str, time_ms, html, parsed, located, url, url_result>>

NextMain ==
    \/ MainValidate
    \/ FetchSleep
    \/ FetchGet
    \/ MainParse
    \/ MainGenerate
    \/ ProcessTrack
    \/ Finish
    \/ MainGenerated
    \/ MainSave

SpecMain == Init /\ [][NextMain]_vars

\* ------------------------------------------------------------------
\* claims about main and fetch_page
\* ------------------------------------------------------------------
Ops == [k \in 1..Len(events) |-> events[k].op]

Ran(op) == \E k \in 1..Len(events) : events[k].op = op

OutcomeOf(op) == events[CHOOSE k \in 1..Len(events) : events[k].op = op].out

Count(op) == Cardinality({ k \in 1..Len(events) : events[k].op = op })

LastOp == events[Len(events)].op

ValidationFailed == Ran("validate_url") /\ OutcomeOf("validate_url") # "True"

FetchFailed == Ran("session.get") /\ OutcomeOf("session.get") # "200"

ExtractionFailed == Ran("parse_tracklist") /\ OutcomeOf("parse_tracklist") # "list"

GenerationFailed == Ran("generate_ffmetadata") /\ pc = "done" /\ result.kind # "text"

SaveFailed ==
    Ran("save_metadata_to_file") /\ OutcomeOf("save_metadata_to_file") # "written"

\* C13: main returns 0 exactly when validation, fetch and extraction,
\* generation and saving all succeed, 1 when validation fails, 2 when the
\* fetch or the extraction fails, 3 when generation or saving the file fails;
\* the first stage that fails is the last one that runs.
C13_ExitCodes ==
    stage = "exit" =>
        /\ exit_code = 0 <=>
              (/\ Ran("save_metadata_to_file")
               /\ ~(ValidationFailed \/ FetchFailed \/ ExtractionFailed
                    \/ GenerationFailed \/ SaveFailed))
        /\ ValidationFailed => (exit_code = 1 /\ LastOp = "validate_url")
        /\ FetchFailed => (exit_code = 2 /\ LastOp = "session.get")
        /\ ExtractionFailed => (exit_code = 2 /\ LastOp = "parse_tracklist")
        /\ GenerationFailed => (exit_code = 3 /\ LastOp = "generate_ffmetadata")
        /\ SaveFailed => exit_code = 3
        /\ exit_code \in 0..4

\* C14: a run sleeps at most once and makes at most one request, directly
\* after the sleep; an answer that is not 200, or a network failure, ends
\* the run with the exit code of ScrapingError and without another request.
C14_OneRequest ==
    /\ Count("time.sleep") <= 1
    /\ Count("session.get") <= 1
    /\ \A k \in 1..Len(events) :
        events[k].op = "session.get" => (k > 1 /\ events[k - 1].op = "time.sleep")
    /\ (stage \notin {"sleep", "get"} /\ Ran("time.sleep")) => Ran("session.get")
    /\ FetchFailed => (stage = "exit" /\ exit_code = 2 /\ LastOp = "session.get")

\* a run that ended on an answer that is not 200
C14_Witness ==
    /\ stage = "exit"
    /\ Ran("session.get")
    /\ OutcomeOf("session.get") = "500"

\* the stages of main, in the order of the code
StageOrder ==
    << "parse_args", "validate_url", "time.sleep", "session.get",
       "parse_tracklist", "generate_ffmetadata", "save_metadata_to_file" >>

\* C20: the calls of a run are a beginning of: validate, sleep and request,
\* extract, generate, save -- each at most once and in that order; there is
\* no request unless validation succeeded, and the output file is touched
\* only after validation, extraction and generation succeeded, so not in a
\* run that ends with 1 or 2, or with 3 from generation.
C20_StageOrder ==
    /\ Len(events) <= Len(StageOrder)
    /\ Ops = SubSeq(StageOrder, 1, Len(events))
    /\ Ran("session.get") => (url_result.kind = "True" /\ ~ValidationFailed)
    /\ Ran("save_metadata_to_file") =>
          (/\ ~ValidationFailed /\ ~FetchFailed /\ ~ExtractionFailed
           /\ pc = "done" /\ result.kind = "text")
    /\ (stage = "exit" /\ (exit_code \in {1, 2} \/ GenerationFailed)) =>
          ~Ran("save_metadata_to_file")

\* a run that ended with 3 from generate_ffmetadata
C20_Witness ==
    /\ stage = "exit"
    /\ exit_code = 3
    /\ GenerationFailed
    /\ ~Ran("save_metadata_to_file")

====
